---- MODULE Spec2Model ----
(***************************************************************************)
(* LocationReaders (plugins/catalog-backend/src/ingestion): the reading of *)
(* a location through a series of processor tasks.  read() expands work    *)
(* items round by round, dispatches every item to the processor chain and  *)
(* accumulates entities and errors.                                        *)
(*                                                                         *)
(* A hook invocation is two steps (the call, and the settling of its       *)
(* promise): the items the hook emits are pushed when it settles.          *)
(***************************************************************************)
EXTENDS Integers, Sequences, FiniteSets, TLC

\* const MAX_DEPTH = 10
MAX_DEPTH == 10

\* Length of the processor chain handed to the constructor.
NumProcessors == 2

\* Most items the hooks of a call add to one round: once newItems holds this
\* many, the hooks emit nothing more and no longer throw in that round.
MaxEmitted == 3

\* The read() calls that may be in progress on the one engine instance.
Calls == {"a", "b"}

\* The names of the four optional hooks of a LocationProcessor.
Hooks == {"readLocation", "parseData", "processEntity", "handleError"}

VARIABLES
    processors,  \* this.processors: the chain, in registration order
    pc,          \* per call: where read() stands
    input,       \* per call: the location argument of read()
    depth,       \* per call: the loop variable depth
    items,       \* per call: the items of the round being processed
    idx,         \* per call: position of the for-of loop in items (1-based)
    newItems,    \* per call: the items emitted during this round
    output,      \* per call: the result being accumulated
    proc,        \* per call: position of the handler's loop over processors
    current,     \* per call: handleEntity's local variable current
    hookLog,     \* per call: history of the hook invocations, in call order
    dispatchLog, \* per call: history of the items taken by the for-of loop
    rounds       \* per call: history of the items lists, one per round

vars == <<processors, pc, input, depth, items, idx, newItems, output, proc,
          current, hookLog, dispatchLog, rounds>>

-----------------------------------------------------------------------------
(* Data: locations, entities, errors, result items                          *)

\* LocationSpec {type, target}.  A target is modelled by the number of
\* further locations it refers to in a chain (a -> b -> c ...).
LocationTypes == {"file", "url"}
InputTargets == {0, MAX_DEPTH - 1, MAX_DEPTH}
NoLocation == [type |-> "none", target |-> 0]

\* Entity: kind plus an opaque payload the transforms act on.
NoEntity == [kind |-> "none", v |-> 0]

\* new Error(message): the message keeps the parts the code interpolates.
Message(text, processor, location, kind) ==
    [text |-> text, processor |-> processor, location |-> location, kind |-> kind]

\* processors/results.ts
location(loc, optional) ==
    [type |-> "location", location |-> loc, optional |-> optional]
data(loc, bytes) ==
    [type |-> "data", location |-> loc, data |-> bytes]
entity(loc, e) ==
    [type |-> "entity", location |-> loc, entity |-> e]
generalError(loc, message) ==
    [type |-> "error", location |-> loc,
     error |-> [class |-> "Error", message |-> message]]
inputError(loc, message) ==
    [type |-> "error", location |-> loc,
     error |-> [class |-> "InputError", message |-> message]]

\* CatalogRulesEnforcer: location type -> entity kinds permitted from it.
Rules ==
    [t \in LocationTypes |->
        IF t = "file" THEN {"Component", "API"} ELSE {"Component"}]
isAllowed(e, loc) == e.kind \in Rules[loc.type]

-----------------------------------------------------------------------------
(* The processor chain.  A LocationProcessor implements any subset of the   *)
(* four hooks; a hook emits items, then returns or throws.  What a hook     *)
(* emits is derived from the location of the item it is invoked for.        *)

NoHook == [has |-> FALSE, emit |-> <<>>, out |-> "none"]
Hook(emit, out) == [has |-> TRUE, emit |-> emit, out |-> out]
Processor(rl, pd, pe, he) ==
    [readLocation |-> rl, parseData |-> pd, processEntity |-> pe, handleError |-> he]

\* The items one emit template stands for, at location loc.
Template(t, loc) ==
    CASE t = "nested" ->
            IF loc.target > 0
            THEN <<location([type |-> loc.type, target |-> loc.target - 1], FALSE)>>
            ELSE <<>>
      [] t = "cycle" -> <<location(loc, TRUE)>>
      [] t = "data" -> <<data(loc, "yaml")>>
      [] t = "component" -> <<entity(loc, [kind |-> "Component", v |-> 1])>>
      [] t = "api" -> <<entity(loc, [kind |-> "API", v |-> 1])>>
      [] t = "report" -> <<generalError(loc, Message("reported", 0, loc, ""))>>

RECURSIVE Expand(_, _)
Expand(ts, loc) ==
    IF ts = <<>> THEN <<>> ELSE Template(Head(ts), loc) \o Expand(Tail(ts), loc)

\* The entity a processEntity hook resolves to.
Transform(out, e) ==
    CASE out = "inc" -> [e EXCEPT !.v = @ + 1]
      [] out = "dbl" -> [e EXCEPT !.v = 2 * @]
      [] OTHER -> e

ProcessorKinds ==
    { \* a reader that emits the location it read, every time
      Processor(Hook(<<"cycle">>, "true"), NoHook, NoHook, NoHook),
      \* a reader that follows a chain of references
      Processor(Hook(<<"nested">>, "true"), NoHook, NoHook, NoHook),
      \* a reader that emits entities and the bytes of the location
      Processor(Hook(<<"component", "api", "data">>, "true"), NoHook, NoHook, NoHook),
      \* a reader and parser that decline
      Processor(Hook(<<>>, "false"), Hook(<<>>, "false"), NoHook, NoHook),
      \* every hook throws
      Processor(Hook(<<>>, "throw"), Hook(<<>>, "throw"),
                Hook(<<>>, "throw"), Hook(<<>>, "throw")),
      \* a validating transform that rejects by throwing
      Processor(NoHook, NoHook, Hook(<<>>, "throw"), NoHook),
      \* a transform
      Processor(NoHook, NoHook, Hook(<<>>, "dbl"), NoHook),
      \* a transform and an error handler that emit the location referred to
      Processor(NoHook, NoHook, Hook(<<"nested">>, "id"), Hook(<<"nested">>, "return")),
      \* hooks that emit and then throw or decline
      Processor(Hook(<<"api", "report">>, "throw"), Hook(<<"component">>, "false"),
                NoHook, NoHook),
      \* implements all four hooks
      Processor(Hook(<<"data">>, "true"), Hook(<<"component", "api">>, "true"),
                Hook(<<>>, "inc"), Hook(<<>>, "return")) }

Has(p, h) == processors[p][h].has

\* What the hook of processor p does when invoked by call c: what its kind
\* says, or nothing but its normal completion once the round is full.
Behaviour(c, p, h) ==
    LET b == processors[p][h]
    IN  IF Len(newItems[c]) < MaxEmitted
        THEN b
        ELSE [has |-> TRUE, emit |-> <<>>,
              out |-> IF b.out # "throw" THEN b.out
                      ELSE IF h \in {"readLocation", "parseData"} THEN "false"
                      ELSE IF h = "processEntity" THEN "id"
                      ELSE "return"]

\* for (const processor of this.processors) if (processor.<h>): the first
\* processor at or after position p that implements hook h.
NextWith(h, p) ==
    IF \E q \in p..NumProcessors : Has(q, h)
    THEN CHOOSE q \in p..NumProcessors :
            Has(q, h) /\ \A r \in p..(q - 1) : ~Has(r, h)
    ELSE NumProcessors + 1

\* A loop that takes the items of a round from the end of the list.
ThisItemFromEnd(c) == items[c][Len(items[c]) + 1 - idx[c]]

\* for (const item of items): the item the loop is at.
ThisItem(c) == items[c][idx[c]]

Init ==
    /\ processors \in [1..NumProcessors -> ProcessorKinds]
    /\ pc = [c \in Calls |-> "idle"]
    /\ input = [c \in Calls |-> NoLocation]
    /\ depth = [c \in Calls |-> 0]
    /\ items = [c \in Calls |-> <<>>]
    /\ idx = [c \in Calls |-> 0]
    /\ newItems = [c \in Calls |-> <<>>]
    /\ output = [c \in Calls |-> [entities |-> <<>>, errors |-> <<>>]]
    /\ proc = [c \in Calls |-> 0]
    /\ current = [c \in Calls |-> NoEntity]
    /\ hookLog = [c \in Calls |-> <<>>]
    /\ dispatchLog = [c \in Calls |-> <<>>]
    /\ rounds = [c \in Calls |-> <<>>]

-----------------------------------------------------------------------------
(* read(): the loop over rounds and the dispatch of the items of a round    *)

\* An emit that pushes to one newItems list held by the engine instance.
emitShared(c, pushed) == newItems' = [d \in Calls |-> newItems[d] \o pushed]

\* const emit = i => newItems.push(i)
emit(c, pushed) == newItems' = [newItems EXCEPT ![c] = @ \o pushed]

\* A loop condition that lets one more round run.
DepthOkLate(d) == d <= MAX_DEPTH

\* for (...; depth < MAX_DEPTH; ++depth)
DepthOk(d) == d < MAX_DEPTH

\* A recursion-limit entry that names the location of a pending item.
DepthErrorAtPending(c) ==
    [location |-> items[c][1].location,
     error |-> [class |-> "Error",
                message |-> Message("Max recursion depth", MAX_DEPTH,
                                    items[c][1].location, "")]]

\* The entry pushed after the loop: { location, error: new Error(message) }
DepthError(c) ==
    [location |-> input[c],
     error |-> [class |-> "Error",
                message |-> Message("Max recursion depth", MAX_DEPTH, input[c], "")]]

\* A gate that lets every entity through.
AdmittedAlways(item) == TRUE

\* if (this.rulesEnforcer.isAllowed(item.entity, item.location))
Admitted(item) == isAllowed(item.entity, item.location)

\* The entries pushed to output.errors in the else branch of the check.
RejectedErrors(item) ==
    << [location |-> item.location,
        error |-> [class |-> "Error",
                   message |-> Message("not allowed", 0, item.location,
                                       item.entity.kind)]] >>

\* An else branch that emits the policy error as an item of the next round.
RejectedEmitsError(item) ==
    << generalError(item.location,
                    Message("not allowed", 0, item.location, item.entity.kind)) >>

\* The items emitted in the else branch of the check: none.
RejectedEmits(item) == <<>>

Dispatched(c) ==
    dispatchLog' = [dispatchLog EXCEPT ![c] =
        Append(@, [round |-> depth[c] + 1, index |-> idx[c], item |-> ThisItem(c),
                   allowed |-> IF ThisItem(c).type = "entity"
                               THEN isAllowed(ThisItem(c).entity, ThisItem(c).location)
                               ELSE FALSE])]

\* async read(location): output and the first items list.
Read(c, loc) ==
    /\ pc[c] = "idle"
    /\ input' = [input EXCEPT ![c] = loc]
    /\ output' = [output EXCEPT ![c] = [entities |-> <<>>, errors |-> <<>>]]
    /\ items' = [items EXCEPT ![c] = <<location(loc, FALSE)>>]
    /\ depth' = [depth EXCEPT ![c] = 0]
    /\ pc' = [pc EXCEPT ![c] = "for_depth"]
    /\ UNCHANGED <<processors, idx, newItems, proc, current, hookLog,
                   dispatchLog, rounds>>

\* The head of the loop over depth, condition true: a round starts.
StartRound(c) ==
    /\ pc[c] = "for_depth"
    /\ DepthOk(depth[c])
    /\ newItems' = [newItems EXCEPT ![c] = <<>>]
    /\ idx' = [idx EXCEPT ![c] = 1]
    /\ rounds' = [rounds EXCEPT ![c] = Append(@, items[c])]
    /\ pc' = [pc EXCEPT ![c] = "for_item"]
    /\ UNCHANGED <<processors, input, depth, items, output, proc, current,
                   hookLog, dispatchLog>>

\* Code after the loop that also reports the errors still pending.
AfterLoopFoldsPending(c) ==
    SelectSeq([i \in 1..Len(items[c]) |->
                  IF items[c][i].type = "error"
                  THEN [location |-> items[c][i].location, error |-> items[c][i].error]
                  ELSE DepthError(c)],
              LAMBDA x : x # DepthError(c))
        \o <<DepthError(c)>>

\* The entries pushed to output.errors after the loop: the one for the bound.
AfterLoop(c) == <<DepthError(c)>>

\* The head of the loop over depth, condition false: the code after the loop.
DepthReached(c) ==
    /\ pc[c] = "for_depth"
    /\ ~DepthOk(depth[c])
    /\ output' = [output EXCEPT ![c].errors = @ \o AfterLoop(c)]
    /\ pc' = [pc EXCEPT ![c] = "done"]
    /\ UNCHANGED <<processors, input, depth, items, idx, newItems, proc,
                   current, hookLog, dispatchLog, rounds>>

\* if (item.type === 'location') await this.handleLocation(item, emit)
DispatchLocation(c) ==
    /\ pc[c] = "for_item" /\ idx[c] <= Len(items[c])
    /\ ThisItem(c).type = "location"
    /\ Dispatched(c)
    /\ proc' = [proc EXCEPT ![c] = NextWith("readLocation", 1)]
    /\ pc' = [pc EXCEPT ![c] = "handleLocation"]
    /\ UNCHANGED <<processors, input, depth, items, idx, newItems, output,
                   current, hookLog, rounds>>

\* else if (item.type === 'data') await this.handleData(item, emit)
DispatchData(c) ==
    /\ pc[c] = "for_item" /\ idx[c] <= Len(items[c])
    /\ ThisItem(c).type = "data"
    /\ Dispatched(c)
    /\ proc' = [proc EXCEPT ![c] = NextWith("parseData", 1)]
    /\ pc' = [pc EXCEPT ![c] = "handleData"]
    /\ UNCHANGED <<processors, input, depth, items, idx, newItems, output,
                   current, hookLog, rounds>>

\* else if (item.type === 'entity'), allowed: await this.handleEntity(item, emit)
DispatchEntity(c) ==
    /\ pc[c] = "for_item" /\ idx[c] <= Len(items[c])
    /\ ThisItem(c).type = "entity"
    /\ Admitted(ThisItem(c))
    /\ Dispatched(c)
    /\ current' = [current EXCEPT ![c] = ThisItem(c).entity]
    /\ proc' = [proc EXCEPT ![c] = NextWith("processEntity", 1)]
    /\ pc' = [pc EXCEPT ![c] = "handleEntity"]
    /\ UNCHANGED <<processors, input, depth, items, idx, newItems, output,
                   hookLog, rounds>>

\* else if (item.type === 'entity'), not allowed: output.errors.push(...)
RejectEntity(c) ==
    /\ pc[c] = "for_item" /\ idx[c] <= Len(items[c])
    /\ ThisItem(c).type = "entity"
    /\ ~Admitted(ThisItem(c))
    /\ Dispatched(c)
    /\ output' = [output EXCEPT ![c].errors = @ \o RejectedErrors(ThisItem(c))]
    /\ emit(c, RejectedEmits(ThisItem(c)))
    /\ idx' = [idx EXCEPT ![c] = @ + 1]
    /\ UNCHANGED <<processors, pc, input, depth, items, proc, current,
                   hookLog, rounds>>

\* else if (item.type === 'error') await this.handleError(item, emit)
DispatchError(c) ==
    /\ pc[c] = "for_item" /\ idx[c] <= Len(items[c])
    /\ ThisItem(c).type = "error"
    /\ Dispatched(c)
    /\ proc' = [proc EXCEPT ![c] = NextWith("handleError", 1)]
    /\ pc' = [pc EXCEPT ![c] = "handleError"]
    /\ UNCHANGED <<processors, input, depth, items, idx, newItems, output,
                   current, hookLog, rounds>>

\* A test after the round that never finds the round empty.
NoNewItemsNever(c) == FALSE

\* newItems.length === 0
NoNewItems(c) == Len(newItems[c]) = 0

\* if (newItems.length === 0) return output
ReturnOutput(c) ==
    /\ pc[c] = "for_item" /\ idx[c] > Len(items[c])
    /\ NoNewItems(c)
    /\ pc' = [pc EXCEPT ![c] = "done"]
    /\ UNCHANGED <<processors, input, depth, items, idx, newItems, output,
                   proc, current, hookLog, dispatchLog, rounds>>

\* A hand-over that keeps the items of the round that ended.
HandOverKeeps(c) == items[c] \o newItems[c]

\* The right-hand side of items = newItems
HandOver(c) == newItems[c]

\* items = newItems; ++depth
NextRound(c) ==
    /\ pc[c] = "for_item" /\ idx[c] > Len(items[c])
    /\ ~NoNewItems(c)
    /\ items' = [items EXCEPT ![c] = HandOver(c)]
    /\ depth' = [depth EXCEPT ![c] = @ + 1]
    /\ pc' = [pc EXCEPT ![c] = "for_depth"]
    /\ UNCHANGED <<processors, input, idx, newItems, output, proc, current,
                   hookLog, dispatchLog, rounds>>

-----------------------------------------------------------------------------
(* The four handlers: the loop over this.processors around each hook        *)

\* A hook is invoked: the arguments it receives are recorded.
Called(c, h, e) ==
    hookLog' = [hookLog EXCEPT ![c] =
        Append(@, [round |-> depth[c] + 1, index |-> idx[c], processor |-> proc[c],
                   hook |-> h, item |-> ThisItem(c), entity |-> e,
                   result |-> "pending", ret |-> NoEntity])]

\* The hook's promise settles: how, and with which entity, is recorded.
Settled(c, result, e) ==
    hookLog' = [hookLog EXCEPT ![c][Len(hookLog[c])] =
        [@ EXCEPT !.result = result, !.ret = e]]

\* A chain that ignores what the hook returns.
HandledNever(out) == FALSE

\* if (await processor.readLocation(...)) return;  (and parseData alike)
Handled(out) == out = "true"

\* A catch block that swallows the error.
CaughtSwallowed(h, p, item) == <<>>

\* catch (e) { emit(result.generalError(item.location, message)) }
Caught(h, p, item) ==
    << generalError(item.location, Message("threw in " \o h, p, item.location, "")) >>

\* A hook's rejection that no catch block takes: it leaves read().
ThrownEscapes(handler) == "raised"

\* Where control goes when the awaited hook rejects: the catch block, which
\* falls through to the next iteration of the handler's loop.
Thrown(handler) == handler

\* A catch block that leaves the handler's loop.
AfterCatchStops(h, p) == NumProcessors + 1

\* The loop position after the catch block: the next processor with the hook.
AfterCatch(h, p) == NextWith(h, p + 1)

\* A handler that emits nothing when no processor handled the item.
UnhandledSilent(what, item) == <<>>

\* emit(result.inputError(item.location, message)) after the loop
Unhandled(what, item) ==
    << inputError(item.location,
                  Message("No processor was able to " \o what, 0, item.location, "")) >>

ReadLocationCall(c) ==
    /\ pc[c] = "handleLocation" /\ proc[c] <= NumProcessors
    /\ Called(c, "readLocation", NoEntity)
    /\ pc' = [pc EXCEPT ![c] = "readLocation"]
    /\ UNCHANGED <<processors, input, depth, items, idx, newItems, output,
                   proc, current, dispatchLog, rounds>>

ReadLocationSettle(c) ==
    /\ pc[c] = "readLocation"
    /\ LET item == ThisItem(c)
           p == proc[c]
           b == Behaviour(c, p, "readLocation")
           pushed == Expand(b.emit, item.location)
       IN  /\ Settled(c, b.out, NoEntity)
           /\ IF b.out = "throw"
              THEN /\ emit(c, pushed \o Caught("readLocation", p, item))
                   /\ proc' = [proc EXCEPT ![c] = AfterCatch("readLocation", p)]
                   /\ pc' = [pc EXCEPT ![c] = Thrown("handleLocation")]
                   /\ idx' = idx
              ELSE IF Handled(b.out)
              THEN /\ emit(c, pushed)
                   /\ pc' = [pc EXCEPT ![c] = "for_item"]
                   /\ idx' = [idx EXCEPT ![c] = @ + 1]
                   /\ proc' = proc
              ELSE /\ emit(c, pushed)
                   /\ proc' = [proc EXCEPT ![c] = NextWith("readLocation", p + 1)]
                   /\ pc' = [pc EXCEPT ![c] = "handleLocation"]
                   /\ idx' = idx
    /\ UNCHANGED <<processors, input, depth, items, output, current,
                   dispatchLog, rounds>>

\* No processor was able to read location ...
LocationUnhandled(c) ==
    /\ pc[c] = "handleLocation" /\ proc[c] > NumProcessors
    /\ emit(c, Unhandled("read", ThisItem(c)))
    /\ idx' = [idx EXCEPT ![c] = @ + 1]
    /\ pc' = [pc EXCEPT ![c] = "for_item"]
    /\ UNCHANGED <<processors, input, depth, items, output, proc, current,
                   hookLog, dispatchLog, rounds>>

ParseDataCall(c) ==
    /\ pc[c] = "handleData" /\ proc[c] <= NumProcessors
    /\ Called(c, "parseData", NoEntity)
    /\ pc' = [pc EXCEPT ![c] = "parseData"]
    /\ UNCHANGED <<processors, input, depth, items, idx, newItems, output,
                   proc, current, dispatchLog, rounds>>

ParseDataSettle(c) ==
    /\ pc[c] = "parseData"
    /\ LET item == ThisItem(c)
           p == proc[c]
           b == Behaviour(c, p, "parseData")
           pushed == Expand(b.emit, item.location)
       IN  /\ Settled(c, b.out, NoEntity)
           /\ IF b.out = "throw"
              THEN /\ emit(c, pushed \o Caught("parseData", p, item))
                   /\ proc' = [proc EXCEPT ![c] = AfterCatch("parseData", p)]
                   /\ pc' = [pc EXCEPT ![c] = Thrown("handleData")]
                   /\ idx' = idx
              ELSE IF Handled(b.out)
              THEN /\ emit(c, pushed)
                   /\ pc' = [pc EXCEPT ![c] = "for_item"]
                   /\ idx' = [idx EXCEPT ![c] = @ + 1]
                   /\ proc' = proc
              ELSE /\ emit(c, pushed)
                   /\ proc' = [proc EXCEPT ![c] = NextWith("parseData", p + 1)]
                   /\ pc' = [pc EXCEPT ![c] = "handleData"]
                   /\ idx' = idx
    /\ UNCHANGED <<processors, input, depth, items, output, current,
                   dispatchLog, rounds>>

\* No processor was able to parse location ...
DataUnhandled(c) ==
    /\ pc[c] = "handleData" /\ proc[c] > NumProcessors
    /\ emit(c, Unhandled("parse", ThisItem(c)))
    /\ idx' = [idx EXCEPT ![c] = @ + 1]
    /\ pc' = [pc EXCEPT ![c] = "for_item"]
    /\ UNCHANGED <<processors, input, depth, items, output, proc, current,
                   hookLog, dispatchLog, rounds>>

\* A catch block after which the entity folded so far is lost.
CurrentAfterThrowLost(c) == NoEntity

\* current when processEntity rejects: the assignment current = await ...
\* does not happen, current keeps the last value assigned.
CurrentAfterThrow(c) == current[c]

ProcessEntityCall(c) ==
    /\ pc[c] = "handleEntity" /\ proc[c] <= NumProcessors
    /\ Called(c, "processEntity", current[c])
    /\ pc' = [pc EXCEPT ![c] = "processEntity"]
    /\ UNCHANGED <<processors, input, depth, items, idx, newItems, output,
                   proc, current, dispatchLog, rounds>>

ProcessEntitySettle(c) ==
    /\ pc[c] = "processEntity"
    /\ LET item == ThisItem(c)
           p == proc[c]
           b == Behaviour(c, p, "processEntity")
           pushed == Expand(b.emit, item.location)
       IN  IF b.out = "throw"
           THEN /\ Settled(c, "throw", NoEntity)
                /\ emit(c, pushed \o Caught("processEntity", p, item))
                /\ proc' = [proc EXCEPT ![c] = AfterCatch("processEntity", p)]
                /\ pc' = [pc EXCEPT ![c] = Thrown("handleEntity")]
                /\ current' = [current EXCEPT ![c] = CurrentAfterThrow(c)]
           ELSE /\ Settled(c, "returned", Transform(b.out, current[c]))
                /\ emit(c, pushed)
                /\ current' = [current EXCEPT ![c] = Transform(b.out, @)]
                /\ proc' = [proc EXCEPT ![c] = NextWith("processEntity", p + 1)]
                /\ pc' = [pc EXCEPT ![c] = "handleEntity"]
    /\ UNCHANGED <<processors, input, depth, items, idx, output,
                   dispatchLog, rounds>>

\* A push that starts the list anew with the entry.
PushEntityOverwrites(c) ==
    <<[entity |-> current[c], location |-> ThisItem(c).location]>>

\* output.entities after output.entities.push({ entity, location: item.location })
PushEntity(c) ==
    Append(output[c].entities,
           [entity |-> current[c], location |-> ThisItem(c).location])

\* return current;  then output.entities.push({ entity, location: item.location })
EntityDone(c) ==
    /\ pc[c] = "handleEntity" /\ proc[c] > NumProcessors
    /\ output' = [output EXCEPT ![c].entities = PushEntity(c)]
    /\ idx' = [idx EXCEPT ![c] = @ + 1]
    /\ pc' = [pc EXCEPT ![c] = "for_item"]
    /\ UNCHANGED <<processors, input, depth, items, newItems, proc, current,
                   hookLog, dispatchLog, rounds>>

\* A loop that ends once a handleError hook has returned.
AfterHandleErrorStops(p) == NumProcessors + 1

\* The loop position after a handleError hook returned: its value is not
\* looked at, the loop goes on with the next processor that has the hook.
AfterHandleError(p) == NextWith("handleError", p + 1)

HandleErrorCall(c) ==
    /\ pc[c] = "handleError" /\ proc[c] <= NumProcessors
    /\ Called(c, "handleError", NoEntity)
    /\ pc' = [pc EXCEPT ![c] = "handleErrorHook"]
    /\ UNCHANGED <<processors, input, depth, items, idx, newItems, output,
                   proc, current, dispatchLog, rounds>>

HandleErrorSettle(c) ==
    /\ pc[c] = "handleErrorHook"
    /\ LET item == ThisItem(c)
           p == proc[c]
           b == Behaviour(c, p, "handleError")
           pushed == Expand(b.emit, item.location)
       IN  IF b.out = "throw"
           THEN /\ Settled(c, "throw", NoEntity)
                /\ emit(c, pushed \o Caught("handleError", p, item))
                /\ proc' = [proc EXCEPT ![c] = AfterCatch("handleError", p)]
                /\ pc' = [pc EXCEPT ![c] = Thrown("handleError")]
           ELSE /\ Settled(c, "returned", NoEntity)
                /\ emit(c, pushed)
                /\ proc' = [proc EXCEPT ![c] = AfterHandleError(p)]
                /\ pc' = [pc EXCEPT ![c] = "handleError"]
    /\ UNCHANGED <<processors, input, depth, items, idx, output, current,
                   dispatchLog, rounds>>

\* An entry that files the error under the location read() was called with.
ErrorOutputAtInput(c) == [location |-> input[c], error |-> ThisItem(c).error]

\* { location: item.location, error: item.error }
ErrorOutput(c) == [location |-> ThisItem(c).location, error |-> ThisItem(c).error]

\* output.errors.push({ location: item.location, error: item.error })
ErrorDone(c) ==
    /\ pc[c] = "handleError" /\ proc[c] > NumProcessors
    /\ output' = [output EXCEPT ![c].errors = Append(@, ErrorOutput(c))]
    /\ idx' = [idx EXCEPT ![c] = @ + 1]
    /\ pc' = [pc EXCEPT ![c] = "for_item"]
    /\ UNCHANGED <<processors, input, depth, items, newItems, proc, current,
                   hookLog, dispatchLog, rounds>>

-----------------------------------------------------------------------------
(* Specifications                                                           *)

\* The locations read() is called with: a file at each nesting depth, and a
\* url that refers to nothing further.
Inputs ==
    {[type |-> "file", target |-> t] : t \in InputTargets}
        \cup {[type |-> "url", target |-> 0]}

\* A call that has started takes its next step.
Proceed(c) ==
    \/ StartRound(c)
    \/ DepthReached(c)
    \/ DispatchLocation(c)
    \/ DispatchData(c)
    \/ DispatchEntity(c)
    \/ RejectEntity(c)
    \/ DispatchError(c)
    \/ ReturnOutput(c)
    \/ NextRound(c)
    \/ ReadLocationCall(c)
    \/ ReadLocationSettle(c)
    \/ LocationUnhandled(c)
    \/ ParseDataCall(c)
    \/ ParseDataSettle(c)
    \/ DataUnhandled(c)
    \/ ProcessEntityCall(c)
    \/ ProcessEntitySettle(c)
    \/ EntityDone(c)
    \/ HandleErrorCall(c)
    \/ HandleErrorSettle(c)
    \/ ErrorDone(c)

Step(c) ==
    \/ \E loc \in Inputs : Read(c, loc)
    \/ Proceed(c)

\* One read() call on the engine.
Next == Step("a")

Spec == Init /\ [][Next]_vars

\* The scheduler runs every continuation that is ready, and every hook settles.
FairSpec == Spec /\ WF_vars(Next)

\* A chain whose first processor is of one kind and the others of another.
Chain(first, rest) == [p \in 1..NumProcessors |-> IF p = 1 THEN first ELSE rest]

\* The chains the engine serving two calls is constructed with: a reader
\* that emits what it read, readers of entities and data with and without a
\* parser after them, and a reader that throws, with an error handler.
ConcurrentChains ==
    { Chain(Processor(Hook(<<"cycle">>, "true"), NoHook, NoHook, NoHook),
            Processor(NoHook, NoHook, Hook(<<"nested">>, "id"),
                      Hook(<<"nested">>, "return"))),
      Chain(Processor(Hook(<<"component", "api", "data">>, "true"),
                      NoHook, NoHook, NoHook),
            Processor(Hook(<<"data">>, "true"), Hook(<<"component", "api">>, "true"),
                      Hook(<<>>, "inc"), Hook(<<>>, "return"))),
      Chain(Processor(Hook(<<"component", "api", "data">>, "true"),
                      NoHook, NoHook, NoHook),
            Processor(Hook(<<>>, "false"), Hook(<<>>, "false"), NoHook, NoHook)),
      Chain(Processor(Hook(<<"api", "report">>, "throw"),
                      Hook(<<"component">>, "false"), NoHook, NoHook),
            Processor(NoHook, NoHook, Hook(<<"nested">>, "id"),
                      Hook(<<"nested">>, "return"))) }

ConcurrentInit ==
    /\ processors \in ConcurrentChains
    /\ pc = [c \in Calls |-> "idle"]
    /\ input = [c \in Calls |-> NoLocation]
    /\ depth = [c \in Calls |-> 0]
    /\ items = [c \in Calls |-> <<>>]
    /\ idx = [c \in Calls |-> 0]
    /\ newItems = [c \in Calls |-> <<>>]
    /\ output = [c \in Calls |-> [entities |-> <<>>, errors |-> <<>>]]
    /\ proc = [c \in Calls |-> 0]
    /\ current = [c \in Calls |-> NoEntity]
    /\ hookLog = [c \in Calls |-> <<>>]
    /\ dispatchLog = [c \in Calls |-> <<>>]
    /\ rounds = [c \in Calls |-> <<>>]

\* The locations the two calls are given: a file that refers to one further
\* location, and a url.
ConcurrentInputs == {[type |-> "file", target |-> 1], [type |-> "url", target |-> 0]}

\* Two read() calls on the one engine: whenever both wait, at a hook's await
\* or at their start, either one runs its next step.
ConcurrentNext ==
    \E c \in Calls :
        \/ \E loc \in ConcurrentInputs : Read(c, loc)
        \/ Proceed(c)

Concurrent == ConcurrentInit /\ [][ConcurrentNext]_vars

-----------------------------------------------------------------------------
(* Properties                                                               *)

Done(c) == pc[c] = "done"

\* The round being processed by call c (1-based).
Round(c) == depth[c] + 1

\* The handling of item k of round r is over.
PastItem(c, r, k) ==
    \/ Done(c)
    \/ Round(c) > r
    \/ Round(c) = r /\ idx[c] > k

\* The items emitted so far while round r was processed.
EmittedIn(c, r) == IF r < Len(rounds[c]) THEN rounds[c][r + 1] ELSE newItems[c]

\* How many entries of sequence s satisfy the test.
Count(s, Test(_)) == Cardinality({i \in 1..Len(s) : Test(s[i])})

\* The hook invocations made for item k of round r, as positions of hookLog.
CallsFor(c, r, k, h) ==
    {i \in 1..Len(hookLog[c]) :
        /\ hookLog[c][i].round = r
        /\ hookLog[c][i].index = k
        /\ hookLog[c][i].hook = h}

Throws(c) == {i \in 1..Len(hookLog[c]) : hookLog[c][i].result = "throw"}

\* The output entry a processor fault stands for: the location of the item
\* that was being handled, and the message naming the processor and the hook.
FaultEntry(h, p, loc) ==
    [location |-> loc,
     error |-> [class |-> "Error",
                message |-> [text |-> "threw in " \o h, processor |-> p,
                             location |-> loc, kind |-> ""]]]

\* C1: read() never raises.  Whatever the hooks do (return, throw, emit and
\* then do either), no exception leaves read(): the call is always at one of
\* its own program points, every settled throw was taken by a catch block,
\* and the result it holds is a ReadResult {entities, errors}.
C1_ReadNeverRaises ==
    \A c \in Calls :
        /\ pc[c] \in {"idle", "for_depth", "for_item", "done",
                      "handleLocation", "readLocation", "handleData", "parseData",
                      "handleEntity", "processEntity", "handleError",
                      "handleErrorHook"}
        /\ DOMAIN output[c] = {"entities", "errors"}
        /\ \A i \in Throws(c) :
              \/ Done(c)
              \/ Round(c) > hookLog[c][i].round
              \/ /\ Round(c) = hookLog[c][i].round
                 /\ Count(newItems[c],
                          LAMBDA it : it.type = "error"
                                      /\ it.location = hookLog[c][i].item.location
                                      /\ it.error.class = "Error") >= 1

\* C1 witness: a call that returned although each of the four hooks threw.
C1_Witness ==
    /\ Done("a")
    /\ \A h \in Hooks : \E i \in Throws("a") : hookLog["a"][i].hook = h

\* C2 as stated: when read() has returned, every throw of a hook, in any
\* round, is matched by exactly one processor-fault entry of the returned
\* errors that carries the location of the item being handled.
C2_EveryThrowReported ==
    \A c \in Calls :
        Done(c) =>
            \A i \in Throws(c) :
                LET e == hookLog[c][i]
                IN  Count(output[c].errors,
                          LAMBDA x : x = FaultEntry(e.hook, e.processor, e.item.location))
                    = Cardinality({j \in Throws(c) :
                        /\ hookLog[c][j].hook = e.hook
                        /\ hookLog[c][j].processor = e.processor
                        /\ hookLog[c][j].item.location = e.item.location})

\* C2 amended: when read() has returned, the throws of rounds 1 to 9 are
\* matched one to one by the processor-fault entries of the returned errors;
\* a throw in round 10 adds no entry (its error item is discarded).
C2_ThrowsBeforeLastRoundReported ==
    \A c \in Calls :
        Done(c) =>
            \A i \in Throws(c) :
                LET e == hookLog[c][i]
                IN  Count(output[c].errors,
                          LAMBDA x : x = FaultEntry(e.hook, e.processor, e.item.location))
                    = Cardinality({j \in Throws(c) :
                        /\ hookLog[c][j].hook = e.hook
                        /\ hookLog[c][j].processor = e.processor
                        /\ hookLog[c][j].item.location = e.item.location
                        /\ hookLog[c][j].round < MAX_DEPTH})

\* C2 witness: a call that returned with a throw in round 10 and one before.
C2_Witness ==
    /\ Done("a")
    /\ \E i \in Throws("a") : hookLog["a"][i].round = MAX_DEPTH
    /\ \E i \in Throws("a") : hookLog["a"][i].round < MAX_DEPTH
    /\ \E i \in Throws("a") : hookLog["a"][i].hook # "handleError"

\* C3: a throw stops neither the chain nor the round.  Once the item is
\* handled, every later processor with the same hook was invoked for it
\* unless an earlier one in between returned true; once the round is over,
\* every later item of the round was dispatched.  (Stated of the throws of
\* the round last started, which every round is until the next one starts.)
C3_ThrowStopsNothing ==
    \A c \in Calls : \A i \in Throws(c) :
        LET e == hookLog[c][i]
            cs == CallsFor(c, e.round, e.index, e.hook)
        IN  e.round = Len(rounds[c]) =>
            /\ PastItem(c, e.round, e.index) =>
                \A q \in (e.processor + 1)..NumProcessors :
                    Has(q, e.hook) =>
                        \/ \E j \in cs : hookLog[c][j].processor = q
                        \/ \E j \in cs :
                              /\ hookLog[c][j].processor > e.processor
                              /\ hookLog[c][j].processor < q
                              /\ hookLog[c][j].result = "true"
            /\ (Done(c) \/ Round(c) > e.round) =>
                \A k \in (e.index + 1)..Len(rounds[c][e.round]) :
                    \E d \in 1..Len(dispatchLog[c]) :
                        /\ dispatchLog[c][d].round = e.round
                        /\ dispatchLog[c][d].index = k

\* C3 witness: after a throw, a later processor was invoked for the same
\* item and a later item of the same round was dispatched.
C3_Witness ==
    \E i \in Throws("a") :
        LET e == hookLog["a"][i]
        IN  /\ \E j \in CallsFor("a", e.round, e.index, e.hook) :
                  hookLog["a"][j].processor > e.processor
            /\ \E d \in 1..Len(dispatchLog["a"]) :
                  /\ dispatchLog["a"][d].round = e.round
                  /\ dispatchLog["a"][d].index > e.index

-----------------------------------------------------------------------------

\* The EntityResult items dispatched so far, as positions of dispatchLog.
EntityDispatches(c) ==
    {d \in 1..Len(dispatchLog[c]) : dispatchLog[c][d].item.type = "entity"}

\* Some processEntity hook threw for item k of round r.
ThrewFor(c, r, k) ==
    \E i \in CallsFor(c, r, k, "processEntity") : hookLog[c][i].result = "throw"

\* The error of the output entry for an entity the rules enforcer rejects.
PolicyError(loc, kind) ==
    [class |-> "Error",
     message |-> [text |-> "not allowed", processor |-> 0,
                  location |-> loc, kind |-> kind]]

\* C4 as stated: an item for which a processEntity hook threw adds no entry
\* to the output entities (it contributes only its error).
C4_ThrowingItemYieldsNoEntity ==
    [][\A c \in Calls :
          output'[c].entities # output[c].entities
              => ~ThrewFor(c, Round(c), idx[c])]_vars

\* C5: the policy gate.  The entries of the output entities are, in order,
\* the EntityResult items handled so far for which isAllowed returned true;
\* processEntity is only ever invoked for an item after isAllowed returned
\* true for it; an item for which isAllowed returned false has no
\* processEntity invocation, no entry in entities, and its policy error in
\* the output errors from there on.
C5_PolicyGate ==
    \A c \in Calls :
        LET allowed == {d \in EntityDispatches(c) : dispatchLog[c][d].allowed}
            handled == {d \in allowed :
                          PastItem(c, dispatchLog[c][d].round, dispatchLog[c][d].index)}
        IN  /\ Len(output[c].entities) = Cardinality(handled)
            /\ \A n \in 1..Len(output[c].entities) :
                  \E d \in handled :
                      /\ Cardinality({x \in handled : x <= d}) = n
                      /\ output[c].entities[n].location = dispatchLog[c][d].item.location
            /\ \A i \in 1..Len(hookLog[c]) :
                  hookLog[c][i].hook = "processEntity" =>
                      \E d \in allowed :
                          /\ dispatchLog[c][d].round = hookLog[c][i].round
                          /\ dispatchLog[c][d].index = hookLog[c][i].index
            /\ \A d \in EntityDispatches(c) \ allowed :
                  LET it == dispatchLog[c][d].item
                  IN  Count(output[c].errors,
                            LAMBDA x : x = [location |-> it.location,
                                            error |-> PolicyError(it.location,
                                                                  it.entity.kind)]) >= 1

\* C5 witness: a call that returned after one entity was admitted and put
\* through processEntity, and another was rejected.
C5_Witness ==
    /\ Done("a")
    /\ output["a"].entities # <<>>
    /\ \E i \in 1..Len(hookLog["a"]) : hookLog["a"][i].hook = "processEntity"
    /\ \E d \in EntityDispatches("a") : ~dispatchLog["a"][d].allowed

\* The policy errors are items: an ErrorResult carrying a policy error.
IsPolicyItem(it) ==
    /\ it.type = "error"
    /\ it.error.class = "Error"
    /\ it.error.message.text = "not allowed"

\* C6 as stated: a policy error reaches the output errors by being emitted
\* into the next round and dispatched there as an ErrorResult: every policy
\* entry of the output errors belongs to a dispatched ErrorResult item.
C6_PolicyErrorIsDispatched ==
    \A c \in Calls : \A n \in 1..Len(output[c].errors) :
        output[c].errors[n].error.message.text = "not allowed" =>
            \E d \in 1..Len(dispatchLog[c]) :
                /\ IsPolicyItem(dispatchLog[c][d].item)
                /\ dispatchLog[c][d].item.location = output[c].errors[n].location

\* C6 amended: when the rules enforcer disallows an EntityResult in round N,
\* the policy error is appended to the output errors in round N, once per
\* rejected item; no ErrorResult for it is emitted into round N+1 and no
\* handleError hook is invoked for it.
C6_PolicyErrorAppendedDirectly ==
    \A c \in Calls :
        /\ \A d \in EntityDispatches(c) :
              ~dispatchLog[c][d].allowed =>
                  LET it == dispatchLog[c][d].item
                  IN  Count(output[c].errors,
                            LAMBDA x : x = [location |-> it.location,
                                            error |-> PolicyError(it.location,
                                                                  it.entity.kind)])
                      = Cardinality({x \in EntityDispatches(c) :
                                        dispatchLog[c][x].item = it})
        /\ Count(newItems[c], IsPolicyItem) = 0
        /\ Count(items[c], IsPolicyItem) = 0
        /\ \A i \in 1..Len(hookLog[c]) : ~IsPolicyItem(hookLog[c][i].item)

\* C6 witness: a call that returned after rejecting an entity in a round
\* that was not the last, with a processor that implements handleError.
C6_Witness ==
    /\ Done("a")
    /\ \E p \in 1..NumProcessors : Has(p, "handleError")
    /\ \E d \in EntityDispatches("a") :
          /\ ~dispatchLog["a"][d].allowed
          /\ dispatchLog["a"][d].round < Len(rounds["a"])

-----------------------------------------------------------------------------

\* The recursion-limit entry for call c: the location read() was called
\* with, and the message naming the bound and that location.
RecursionLimitEntry(c) ==
    [location |-> input[c],
     error |-> [class |-> "Error",
                message |-> [text |-> "Max recursion depth", processor |-> MAX_DEPTH,
                             location |-> input[c], kind |-> ""]]]

IsLimitEntry(x) == x.error.message.text = "Max recursion depth"

\* The reader that is tried first emits a new LocationResult on every call.
AlwaysEmittingReader ==
    \E p \in 1..NumProcessors :
        /\ p = NextWith("readLocation", 1)
        /\ processors[p].readLocation = Hook(<<"cycle">>, "true")

\* C7: termination and round bound.  Every read() call returns; it never
\* processes more than MAX_DEPTH rounds; with the always-emitting reader it
\* returns after exactly MAX_DEPTH rounds and its last error is the
\* recursion-limit error.
C7_TerminatesWithinBound ==
    /\ <>Done("a")
    /\ [](\A c \in Calls : Len(rounds[c]) <= MAX_DEPTH)
    /\ [](\A c \in Calls :
            (Done(c) /\ AlwaysEmittingReader) =>
                /\ Len(rounds[c]) = MAX_DEPTH
                /\ output[c].errors # <<>>
                /\ output[c].errors[Len(output[c].errors)] = RecursionLimitEntry(c))

\* C7 witness: a call with the always-emitting reader that returned after
\* MAX_DEPTH rounds with the recursion-limit error.
C7_Witness ==
    /\ Done("a")
    /\ AlwaysEmittingReader
    /\ Len(rounds["a"]) = MAX_DEPTH
    /\ Count(output["a"].errors, IsLimitEntry) = 1

\* C8: the recursion-limit outcome.  No recursion-limit error is in the
\* output before read() returns; when it has returned there is one exactly
\* if the 10th round emitted at least one item, and none otherwise; that
\* one names the input location of the call and is the last entry of errors.
C8_RecursionLimitOutcome ==
    \A c \in Calls :
        LET n == Count(output[c].errors, IsLimitEntry)
        IN  /\ ~Done(c) => n = 0
            /\ Done(c) =>
                /\ n <= 1
                /\ n = 1 <=> (Len(rounds[c]) = MAX_DEPTH /\ newItems[c] # <<>>)
                /\ n = 1 =>
                    output[c].errors[Len(output[c].errors)] = RecursionLimitEntry(c)

\* C8 witness: a call that returned with the recursion-limit error while an
\* item of another location than the input was pending.
C8_Witness ==
    /\ Done("a")
    /\ Count(output["a"].errors, IsLimitEntry) = 1
    /\ \E i \in 1..Len(newItems["a"]) : newItems["a"][i].location # input["a"]

\* The item the engine emits when no processor handled an item.
UnhandledItem(what, loc) ==
    [type |-> "error", location |-> loc,
     error |-> [class |-> "InputError",
                message |-> [text |-> "No processor was able to " \o what,
                             processor |-> 0, location |-> loc, kind |-> ""]]]

FirstMatchHook(type) == IF type = "location" THEN "readLocation" ELSE "parseData"
FirstMatchWhat(type) == IF type = "location" THEN "read" ELSE "parse"

\* No hook invoked for item k of round r returned true.
NoneHandled(c, r, k, h) ==
    \A i \in CallsFor(c, r, k, h) : hookLog[c][i].result # "true"

\* C9: first match wins for readLocation and parseData.  For one item the
\* processors that have the hook are invoked in registration order, none is
\* skipped and none is invoked twice; after one returned true no other is
\* invoked for the item; the unhandled-input errors emitted in a round for a
\* location are exactly one per handled item of that location for which no
\* processor returned true.  (Stated of the round last started, which every
\* round is until the next one starts.)
C9_FirstMatchWins ==
    \A c \in Calls :
        LET r == Len(rounds[c])
            now == {d \in 1..Len(dispatchLog[c]) :
                      /\ dispatchLog[c][d].round = r
                      /\ dispatchLog[c][d].item.type \in {"location", "data"}}
        IN  /\ \A d \in now :
                  LET e == dispatchLog[c][d]
                      h == FirstMatchHook(e.item.type)
                      cs == CallsFor(c, r, e.index, h)
                  IN  /\ \A i, j \in cs :
                            i < j => hookLog[c][i].processor < hookLog[c][j].processor
                      /\ \A i \in cs : \A q \in 1..(hookLog[c][i].processor - 1) :
                            Has(q, h) => \E j \in cs : j < i /\ hookLog[c][j].processor = q
                      /\ \A i \in cs :
                            hookLog[c][i].result = "true" => \A j \in cs : j <= i
                      /\ (PastItem(c, r, e.index) /\ NoneHandled(c, r, e.index, h)) =>
                            \A q \in 1..NumProcessors :
                                Has(q, h) => \E j \in cs : hookLog[c][j].processor = q
            /\ \A d \in now :
                  LET it == dispatchLog[c][d].item
                  IN  Count(newItems[c],
                            LAMBDA x : x = UnhandledItem(FirstMatchWhat(it.type), it.location))
                      = Cardinality({x \in now :
                          /\ dispatchLog[c][x].item.type = it.type
                          /\ dispatchLog[c][x].item.location = it.location
                          /\ PastItem(c, r, dispatchLog[c][x].index)
                          /\ NoneHandled(c, r, dispatchLog[c][x].index,
                                         FirstMatchHook(it.type))})

\* C9 witness: a call that returned after one item was handled by the first
\* processor, the second one having the hook too, and another item was
\* handled by none.
C9_Witness ==
    /\ Done("a")
    /\ \E i \in 1..Len(hookLog["a"]) :
          /\ hookLog["a"][i].result = "true"
          /\ hookLog["a"][i].processor < NumProcessors
          /\ Has(NumProcessors, hookLog["a"][i].hook)
    /\ \E d \in 1..Len(dispatchLog["a"]) :
          LET e == dispatchLog["a"][d]
          IN  /\ e.item.type \in {"location", "data"}
              /\ CallsFor("a", e.round, e.index, FirstMatchHook(e.item.type)) # {}
              /\ NoneHandled("a", e.round, e.index, FirstMatchHook(e.item.type))

\* C10 as stated: the pipeline fold.  For an allowed EntityResult every
\* processor that has processEntity is invoked once, in registration order;
\* the first receives the item's entity, each later one the value returned
\* by the one before it, and the entity appended to the output entities,
\* with the item's location, is the value returned by the last one.
C10_PipelineFold ==
    \A c \in Calls :
        LET allowed == {d \in EntityDispatches(c) : dispatchLog[c][d].allowed}
            handled == {d \in allowed :
                          PastItem(c, dispatchLog[c][d].round, dispatchLog[c][d].index)}
        IN  \A d \in allowed :
              LET e == dispatchLog[c][d]
                  cs == CallsFor(c, e.round, e.index, "processEntity")
                  last == CHOOSE i \in cs : \A j \in cs : j <= i
                  n == Cardinality({x \in handled : x <= d})
              IN  /\ \A i, j \in cs :
                        i < j => hookLog[c][i].processor < hookLog[c][j].processor
                  /\ \A i \in cs :
                        LET before == {j \in cs : j < i}
                        IN  hookLog[c][i].entity =
                              IF before = {} THEN e.item.entity
                              ELSE hookLog[c][CHOOSE j \in before :
                                                \A x \in before : x <= j].ret
                  /\ d \in handled =>
                        /\ {hookLog[c][i].processor : i \in cs}
                              = {p \in 1..NumProcessors : Has(p, "processEntity")}
                        /\ n <= Len(output[c].entities)
                        /\ output[c].entities[n] =
                              [entity |-> IF cs = {} THEN e.item.entity
                                          ELSE hookLog[c][last].ret,
                               location |-> e.item.location]

-----------------------------------------------------------------------------

\* The output entry of an item: its location and its error.
ErrorEntry(it) == [location |-> it.location, error |-> it.error]

\* No processor reads the input location of call c, and no hook that is
\* invoked for it throws or emits: every readLocation returns false without
\* emitting, every handleError returns without emitting.
NoReaderFor(c) ==
    \A p \in 1..NumProcessors :
        /\ Has(p, "readLocation") =>
              /\ processors[p].readLocation.out = "false"
              /\ Expand(processors[p].readLocation.emit, input[c]) = <<>>
        /\ Has(p, "handleError") =>
              /\ processors[p].handleError.out = "return"
              /\ Expand(processors[p].handleError.emit, input[c]) = <<>>

\* C11: for an input location that no readLocation handles, with no hook
\* throwing or emitting, read() returns no entity and exactly one error: the
\* unhandled-input error, at the input location.
C11_UnreadableLocation ==
    \A c \in Calls :
        (Done(c) /\ NoReaderFor(c)) =>
            /\ output[c].entities = <<>>
            /\ output[c].errors = <<ErrorEntry(UnhandledItem("read", input[c]))>>

\* C11 witness: a call that returned for such a location after a readLocation
\* hook declined it and a handleError hook was invoked for the error.
C11_Witness ==
    /\ Done("a")
    /\ NoReaderFor("a")
    /\ \E i \in 1..Len(hookLog["a"]) :
          hookLog["a"][i].hook = "readLocation" /\ hookLog["a"][i].result = "false"
    /\ \E i \in 1..Len(hookLog["a"]) : hookLog["a"][i].hook = "handleError"

\* Call c has processed every item of the round and none emitted an item.
RoundEmittedNothing(c) ==
    /\ pc[c] = "for_item"
    /\ idx[c] > Len(items[c])
    /\ newItems[c] = <<>>

\* C12: termination on no new work.  When a round, the first included, has
\* emitted no item, the step read() takes next is its return: the output is
\* what was accumulated, no hook is invoked and no round is started; a call
\* that returned this way has no recursion-limit error, also after round 10.
C12_ReturnsOnNoNewWork ==
    /\ [](\A c \in Calls :
            /\ RoundEmittedNothing(c) => ENABLED ReturnOutput(c)
            /\ (Done(c) /\ newItems[c] = <<>>) =>
                  Count(output[c].errors, IsLimitEntry) = 0)
    /\ [][\A c \in Calls :
            RoundEmittedNothing(c) =>
                /\ pc'[c] = "done"
                /\ output'[c] = output[c]
                /\ hookLog'[c] = hookLog[c]
                /\ dispatchLog'[c] = dispatchLog[c]
                /\ rounds'[c] = rounds[c]]_vars

\* C12 witness: a call that returned because its 10th round emitted nothing.
C12_Witness ==
    /\ Done("a")
    /\ newItems["a"] = <<>>
    /\ Len(rounds["a"]) = MAX_DEPTH
    /\ hookLog["a"] # <<>>

-----------------------------------------------------------------------------

\* Everything call c holds: its local variables and its history.
View(c) ==
    <<pc[c], input[c], depth[c], items[c], idx[c], newItems[c], output[c],
      proc[c], current[c], hookLog[c], dispatchLog[c], rounds[c]>>

\* Call c waits for a hook it invoked to settle.
Awaiting(c) == pc[c] \in {"readLocation", "parseData", "processEntity", "handleErrorHook"}

\* Every item and every output entry call c holds has the location type of
\* the location c was called with (hooks emit at the type they are given).
OwnItemsOnly(c) ==
    /\ \A i \in 1..Len(items[c]) : items[c][i].location.type = input[c].type
    /\ \A i \in 1..Len(newItems[c]) : newItems[c][i].location.type = input[c].type
    /\ \A i \in 1..Len(output[c].entities) :
          output[c].entities[i].location.type = input[c].type
    /\ \A i \in 1..Len(output[c].errors) :
          output[c].errors[i].location.type = input[c].type

\* C13: concurrent reads are independent.  With two read() calls interleaved
\* at every await, what a call holds changes only by that call's own steps,
\* which are the steps it takes when run alone and leave the other call
\* untouched; two calls given the same location return the same entities and
\* errors, in the same order, after the same hook invocations, however they
\* were interleaved; no item or output entry of one call comes from the other.
C13_ConcurrentReadsIndependent ==
    /\ [][\A c \in Calls :
            View(c)' # View(c) =>
                ((\E loc \in ConcurrentInputs : Read(c, loc)) \/ Proceed(c))]_vars
    /\ [](\A c, d \in Calls :
            (Done(c) /\ Done(d) /\ input[c] = input[d]) =>
                /\ output[c] = output[d]
                /\ hookLog[c] = hookLog[d]
                /\ rounds[c] = rounds[d])
    /\ [](\A c \in Calls : OwnItemsOnly(c))

\* C13 witness: both calls wait on a hook at once, for locations of
\* different types, one holding items it emitted and an entity, the other
\* holding errors.
C13_Witness ==
    /\ Awaiting("a") /\ Awaiting("b")
    /\ input["a"].type # input["b"].type
    /\ newItems["a"] # <<>>
    /\ output["a"].entities # <<>>
    /\ output["b"].errors # <<>>

-----------------------------------------------------------------------------

\* How many items of round r call c has taken from the round's list so far.
Taken(c, r) ==
    IF r < Len(rounds[c]) \/ pc[c] \in {"for_depth", "done"} THEN Len(rounds[c][r])
    ELSE IF pc[c] = "for_item" THEN idx[c] - 1
    ELSE idx[c]

\* Sequence s is t with zero or more entries appended.
Extends(s, t) == Len(s) >= Len(t) /\ SubSeq(s, 1, Len(t)) = t

\* C14: round hand-over.  The first round's items are the one LocationResult
\* {input location, optional: false}; the items of round N+1 are exactly the
\* items emitted while round N was processed, in emission order (within a
\* round the emitted list only grows at its end, and the round that starts
\* takes it whole); the items of a round are dispatched once each, in their
\* order, and nothing else is dispatched in that round.
C14_RoundHandOver ==
    /\ [](\A c \in Calls :
            /\ Len(rounds[c]) >= 1 => rounds[c][1] = <<location(input[c], FALSE)>>
            /\ \A r \in 1..Len(rounds[c]) :
                  /\ Cardinality({d \in 1..Len(dispatchLog[c]) :
                                    dispatchLog[c][d].round = r}) = Taken(c, r)
                  /\ \A k \in 1..Taken(c, r) :
                        \E d \in 1..Len(dispatchLog[c]) :
                            /\ dispatchLog[c][d].round = r
                            /\ dispatchLog[c][d].index = k
                            /\ dispatchLog[c][d].item = rounds[c][r][k]
            /\ \A d \in 1..(Len(dispatchLog[c]) - 1) :
                  \/ dispatchLog[c][d].round < dispatchLog[c][d + 1].round
                  \/ /\ dispatchLog[c][d].round = dispatchLog[c][d + 1].round
                     /\ dispatchLog[c][d].index < dispatchLog[c][d + 1].index)
    /\ [][\A c \in Calls :
            /\ (Len(rounds[c]) >= 1 /\ Len(rounds'[c]) = Len(rounds[c]) + 1) =>
                  /\ rounds'[c][Len(rounds'[c])] = newItems[c]
                  /\ newItems'[c] = <<>>
            /\ rounds'[c] = rounds[c] => Extends(newItems'[c], newItems[c])]_vars

\* C14 witness: a call that returned after three rounds or more, one of
\* them made of at least three items, some emitted by a hook and some by the
\* engine, and followed by a further round.
C14_Witness ==
    /\ Done("a")
    /\ \E r \in 2..(Len(rounds["a"]) - 1) :
          /\ Len(rounds["a"][r]) >= 3
          /\ \E k \in 1..Len(rounds["a"][r]) : rounds["a"][r][k].type = "entity"
          /\ \E k \in 1..Len(rounds["a"][r]) :
                /\ rounds["a"][r][k].type = "error"
                /\ rounds["a"][r][k].error.class = "InputError"

-----------------------------------------------------------------------------

\* Call c returned because the round bound was reached.
EndedAtBound(c) == Done(c) /\ Len(rounds[c]) = MAX_DEPTH /\ newItems[c] # <<>>

\* C15: discard at the bound.  When read() ends at the round bound, nothing
\* was dispatched and no hook was invoked beyond round 10, so for none of the
\* items the 10th round emitted; the output holds one entry for each
\* EntityResult and ErrorResult item dispatched in rounds 1 to 10 and the
\* recursion-limit error, nothing else; the step that ends the call adds
\* that one error and leaves the rest of the output as accumulated.
C15_DiscardAtBound ==
    /\ [](\A c \in Calls :
            EndedAtBound(c) =>
                /\ \A d \in 1..Len(dispatchLog[c]) : dispatchLog[c][d].round <= MAX_DEPTH
                /\ \A i \in 1..Len(hookLog[c]) : hookLog[c][i].round <= MAX_DEPTH
                /\ Len(output[c].entities) + Len(output[c].errors) =
                      Cardinality({d \in 1..Len(dispatchLog[c]) :
                                      dispatchLog[c][d].item.type \in {"entity", "error"}})
                        + 1
                /\ output[c].errors[Len(output[c].errors)] = RecursionLimitEntry(c))
    /\ [][\A c \in Calls :
            (pc[c] = "for_depth" /\ pc'[c] = "done") =>
                /\ output'[c].entities = output[c].entities
                /\ output'[c].errors = Append(output[c].errors, RecursionLimitEntry(c))
                /\ hookLog'[c] = hookLog[c]
                /\ dispatchLog'[c] = dispatchLog[c]]_vars

\* C15 witness: a call that ended at the bound while the 10th round had
\* emitted an error item and an item of another variant, after output had
\* been accumulated.
C15_Witness ==
    /\ EndedAtBound("a")
    /\ \E i \in 1..Len(newItems["a"]) : newItems["a"][i].type = "error"
    /\ \E i \in 1..Len(newItems["a"]) : newItems["a"][i].type # "error"
    /\ Len(output["a"].errors) > 1

-----------------------------------------------------------------------------

\* The ErrorResult items dispatched so far, as positions of dispatchLog.
ErrorDispatches(c) ==
    {d \in 1..Len(dispatchLog[c]) : dispatchLog[c][d].item.type = "error"}

\* The handling of the dispatched item that log entry e stands for is over.
ItemOver(e, c) == PastItem(c, e.round, e.index)

\* The entries of the output errors that come from ErrorResult items: all
\* but the policy errors and the recursion-limit error.
DispatchedErrors(c) ==
    SelectSeq(output[c].errors,
              LAMBDA x : x.error.message.text \notin {"not allowed", "Max recursion depth"})

\* The ErrorResult items handled so far, in dispatch order.
HandledErrors(c) ==
    SelectSeq(dispatchLog[c], LAMBDA e : e.item.type = "error" /\ ItemOver(e, c))

\* C16: error dispatch.  For every ErrorResult item dispatched, the
\* processors that have handleError are invoked in registration order, each
\* at most once and with that item, and once the item is handled each of
\* them has been invoked, whatever the earlier ones returned or threw; the
\* entries of the output errors that come from ErrorResult items are, in
\* dispatch order, one {location, error} per item handled, the item's own.
\* (The invocations are stated of the round last started, which every round
\* is until the next one starts.)
C16_ErrorDispatch ==
    \A c \in Calls :
        LET he == HandledErrors(c)
        IN
        /\ \A d \in ErrorDispatches(c) :
              LET e == dispatchLog[c][d]
                  cs == CallsFor(c, e.round, e.index, "handleError")
              IN  e.round = Len(rounds[c]) =>
                      /\ \A i, j \in cs :
                            i < j => hookLog[c][i].processor < hookLog[c][j].processor
                      /\ \A i \in cs : hookLog[c][i].item = e.item
                      /\ ItemOver(e, c) =>
                            {hookLog[c][i].processor : i \in cs}
                                = {p \in 1..NumProcessors : Has(p, "handleError")}
        /\ \A i \in 1..Len(hookLog[c]) :
              hookLog[c][i].hook = "handleError" => hookLog[c][i].item.type = "error"
        /\ DispatchedErrors(c) = [n \in 1..Len(he) |-> ErrorEntry(he[n].item)]

\* C16 witness: a call that returned after an ErrorResult item for which a
\* handleError hook threw and a later processor's handleError was invoked.
C16_Witness ==
    /\ Done("a")
    /\ \E d \in ErrorDispatches("a") :
          LET cs == CallsFor("a", dispatchLog["a"][d].round, dispatchLog["a"][d].index,
                             "handleError")
          IN  \E i, j \in cs :
                  /\ i < j
                  /\ hookLog["a"][i].result = "throw"
                  /\ hookLog["a"][j].result = "returned"

-----------------------------------------------------------------------------

\* Entry x of a log comes before entry y: an earlier round, or the same
\* round and an earlier item.
Before(x, y) == x.round < y.round \/ (x.round = y.round /\ x.index < y.index)

\* Dispatch y is the one after dispatch x: the next item of the same round,
\* or, x being the last item of its round, the first item of the next round.
Follows(c, x, y) ==
    \/ y.round = x.round /\ y.index = x.index + 1
    \/ /\ y.round = x.round + 1 /\ y.index = 1
       /\ x.index = Len(rounds[c][x.round])

\* The dispatched items that add an entry to the output errors, in dispatch
\* order: ErrorResult items and rejected EntityResult items, once handled.
ErrorContributors(c) ==
    SelectSeq(dispatchLog[c],
              LAMBDA e : /\ \/ e.item.type = "error"
                            \/ e.item.type = "entity" /\ ~e.allowed
                         /\ ItemOver(e, c))

\* The dispatched items that add an entry to the output entities, in
\* dispatch order.
EntityContributors(c) ==
    SelectSeq(dispatchLog[c],
              LAMBDA e : e.item.type = "entity" /\ e.allowed /\ ItemOver(e, c))

\* The entry of the output errors that a dispatched item adds.
Contribution(e) ==
    IF e.item.type = "error" THEN ErrorEntry(e.item)
    ELSE [location |-> e.item.location,
          error |-> PolicyError(e.item.location, e.item.entity.kind)]

\* What call c has done so far is in sequence: the one hook in flight, if
\* any, is the last invoked and for the last item dispatched; the dispatches
\* follow the rounds' lists item by item; the hooks follow the dispatches;
\* the output lists follow the dispatches.
Sequenced(c) ==
    LET nd == Len(dispatchLog[c])
        nh == Len(hookLog[c])
        errs == SelectSeq(output[c].errors, LAMBDA x : ~IsLimitEntry(x))
        ec == ErrorContributors(c)
        nc == EntityContributors(c)
    IN  /\ \A i \in 1..nh :
              /\ hookLog[c][i].result = "pending" =>
                    /\ i = nh
                    /\ Awaiting(c)
                    /\ hookLog[c][i].round = dispatchLog[c][nd].round
                    /\ hookLog[c][i].index = dispatchLog[c][nd].index
              /\ i < nh => ~Before(hookLog[c][i + 1], hookLog[c][i])
              /\ ~Before(dispatchLog[c][nd], hookLog[c][i])
              /\ hookLog[c][i].round <= Len(rounds[c])
        /\ Awaiting(c) => hookLog[c][nh].result = "pending"
        /\ \A d \in 1..nd :
              LET e == dispatchLog[c][d]
              IN  /\ e.round <= Len(rounds[c])
                  /\ e.item = rounds[c][e.round][e.index]
                  /\ d = 1 => (e.round = 1 /\ e.index = 1)
                  /\ d < nd => Follows(c, e, dispatchLog[c][d + 1])
                  /\ (d = nd /\ e.round < Len(rounds[c])) =>
                        /\ e.round = Len(rounds[c]) - 1
                        /\ e.index = Len(rounds[c][e.round])
        /\ [n \in 1..Len(output[c].entities) |-> output[c].entities[n].location]
              = [n \in 1..Len(nc) |-> nc[n].item.location]
        /\ errs = [n \in 1..Len(ec) |-> Contribution(ec[n])]

\* C17: strict sequencing inside one read() call.  At most one hook is in
\* flight, and it is the last one invoked, for the item dispatched last;
\* items are dispatched in the order of their round's list, round after
\* round; hooks are invoked in the order of the items they are for, so all
\* hooks of an item have settled before the next item is dispatched; a round
\* has hooks invoked only after every item of the rounds before was
\* dispatched; the entries of the output entities, and those of the output
\* errors, are in the order in which their items were dispatched; an item is
\* dispatched, and a hook invoked, only in a step in which no hook is pending.
C17_StrictSequencing ==
    /\ [](\A c \in Calls : Sequenced(c))
    /\ [][\A c \in Calls :
            /\ dispatchLog'[c] # dispatchLog[c] =>
                  /\ ~Awaiting(c)
                  /\ \A i \in 1..Len(hookLog[c]) : hookLog[c][i].result # "pending"
            /\ Len(hookLog'[c]) > Len(hookLog[c]) =>
                  /\ ~Awaiting(c)
                  /\ \A i \in 1..Len(hookLog[c]) : hookLog[c][i].result # "pending"]_vars

\* C17 witness: a call that returned after a round in which hooks were
\* invoked for two items, with two entities and two errors in its output.
C17_Witness ==
    /\ Done("a")
    /\ Len(output["a"].entities) >= 2
    /\ Len(ErrorContributors("a")) >= 2
    /\ \E i, j \in 1..Len(hookLog["a"]) :
          /\ hookLog["a"][i].round = hookLog["a"][j].round
          /\ hookLog["a"][i].index < hookLog["a"][j].index

-----------------------------------------------------------------------------

\* An ErrorResult the engine itself builds: a processor fault or an
\* unhandled input (the hooks of the chain only emit errors that say
\* "reported").
IsEngineItem(x) == x.type = "error" /\ x.error.message.text # "reported"

\* C18: provenance.  Every item has a location; every ErrorResult the engine
\* emits in a round carries, as its location and in its message, the
\* location of an item handled in that round: an unhandled-input error that
\* of a LocationResult or DataResult dispatched there, a processor fault
\* that of the item the named hook of the named processor threw for; every
\* entry of the output entities and errors except the recursion-limit error
\* carries the location of the dispatched item it was produced from.  (The
\* emitted items are stated of the round last started, which every round is
\* until the next one starts.)
C18_Provenance ==
    \A c \in Calls :
        LET errs == SelectSeq(output[c].errors, LAMBDA x : ~IsLimitEntry(x))
            ec == ErrorContributors(c)
            nc == EntityContributors(c)
            r == Len(rounds[c])
        IN  /\ \A k \in 1..Len(items[c]) : items[c][k].location.type \in LocationTypes
            /\ \A k \in 1..Len(newItems[c]) :
                  LET x == newItems[c][k]
                  IN  /\ x.location.type \in LocationTypes
                      /\ IsEngineItem(x) =>
                            /\ x.error.message.location = x.location
                            /\ IF x.error.class = "InputError"
                               THEN \E d \in 1..Len(dispatchLog[c]) :
                                      /\ dispatchLog[c][d].round = r
                                      /\ dispatchLog[c][d].item.type \in {"location", "data"}
                                      /\ dispatchLog[c][d].item.location = x.location
                               ELSE \E i \in 1..Len(hookLog[c]) :
                                      /\ hookLog[c][i].result = "throw"
                                      /\ hookLog[c][i].round = r
                                      /\ hookLog[c][i].item.location = x.location
                                      /\ hookLog[c][i].processor = x.error.message.processor
                                      /\ "threw in " \o hookLog[c][i].hook
                                            = x.error.message.text
            /\ [n \in 1..Len(output[c].entities) |-> output[c].entities[n].location]
                  = [n \in 1..Len(nc) |-> nc[n].item.location]
            /\ [n \in 1..Len(errs) |-> errs[n].location]
                  = [n \in 1..Len(ec) |-> ec[n].item.location]

\* C18 witness: a call that returned with a processor fault and an
\* unhandled-input error in its output, both for a location other than the
\* one it was called with, and an entity.
C18_Witness ==
    /\ Done("a")
    /\ output["a"].entities # <<>>
    /\ \E n \in 1..Len(output["a"].errors) :
          /\ output["a"].errors[n].location # input["a"]
          /\ output["a"].errors[n].error.class = "InputError"
    /\ \E n \in 1..Len(output["a"].errors) :
          /\ output["a"].errors[n].location # input["a"]
          /\ output["a"].errors[n].error.class = "Error"
          /\ output["a"].errors[n].error.message.processor \in 1..NumProcessors

-----------------------------------------------------------------------------

\* Of the hook invocations in cs, those before i that returned.
ReturnedBefore(c, cs, i) == {j \in cs : j < i /\ hookLog[c][j].result = "returned"}

\* The last of a non-empty set of positions.
Last(S) == CHOOSE i \in S : \A j \in S : j <= i

\* The entity handleEntity holds before invocation i, given the invocations
\* cs made for the item of log entry e.
Folded(c, cs, i, e) ==
    IF ReturnedBefore(c, cs, i) = {} THEN e.item.entity
    ELSE hookLog[c][Last(ReturnedBefore(c, cs, i))].ret

\* C19: fold across a fault.  For an allowed EntityResult item every
\* processEntity hook receives the entity returned by the last hook before
\* it that did not throw, or the item's entity if there is none; a hook that
\* returns, returns its transform of the entity it received; the entity put
\* in the output for the item is the one returned by the last hook that did
\* not throw (the item's own if none); and the round's emitted items hold
\* one processor-fault error per throw, naming the processor and carrying
\* the item's location.  (Stated of the round last started, which every
\* round is until the next one starts, and of the entity put in the output
\* last, which every entry is when it is put there.)
C19_FoldAcrossFault ==
    \A c \in Calls :
        LET r == Len(rounds[c])
            nc == EntityContributors(c)
        IN  /\ \A d \in EntityDispatches(c) :
                  LET e == dispatchLog[c][d]
                      cs == CallsFor(c, e.round, e.index, "processEntity")
                  IN  e.round = r =>
                        \A i \in cs :
                            /\ hookLog[c][i].entity = Folded(c, cs, i, e)
                            /\ hookLog[c][i].result = "returned" =>
                                  hookLog[c][i].ret =
                                      Transform(processors[hookLog[c][i].processor]
                                                    .processEntity.out,
                                                hookLog[c][i].entity)
            /\ nc # <<>> =>
                  LET e == nc[Len(nc)]
                      cs == CallsFor(c, e.round, e.index, "processEntity")
                  IN  /\ Len(output[c].entities) = Len(nc)
                      /\ output[c].entities[Len(nc)] =
                            [entity |-> Folded(c, cs, Len(hookLog[c]) + 1, e),
                             location |-> e.item.location]
            /\ \A i \in 1..Len(hookLog[c]) :
                  LET t == hookLog[c][i]
                  IN  (t.result = "throw" /\ t.hook = "processEntity" /\ t.round = r) =>
                        Count(newItems[c],
                              LAMBDA x : x = generalError(t.item.location,
                                                Message("threw in processEntity",
                                                        t.processor, t.item.location, "")))
                        = Cardinality({j \in 1..Len(hookLog[c]) :
                              /\ hookLog[c][j].result = "throw"
                              /\ hookLog[c][j].hook = "processEntity"
                              /\ hookLog[c][j].round = r
                              /\ hookLog[c][j].processor = t.processor
                              /\ hookLog[c][j].item.location = t.item.location})

\* C19 witness: a call that returned after an item for which one processor's
\* processEntity changed the entity and the next one's threw, the changed
\* entity being in the output.
C19_Witness ==
    /\ Done("a")
    /\ \E i \in Throws("a") :
          /\ hookLog["a"][i].hook = "processEntity"
          /\ hookLog["a"][i].entity # hookLog["a"][i].item.entity
          /\ \E n \in 1..Len(output["a"].entities) :
                output["a"].entities[n].entity = hookLog["a"][i].entity

-----------------------------------------------------------------------------

\* C20: the output buffers are append-only.  Every step of a call leaves the
\* entries already in its output entities and errors as they are and in
\* place, and adds at most one entry, at the end of one list: an entity when
\* an allowed EntityResult item is dispatched, a policy error when a
\* rejected one is, the item's error when an ErrorResult item is, or the
\* recursion-limit error in the step that ends the call at the bound;
\* nothing is added while a LocationResult or DataResult item is dispatched.
C20_OutputAppendOnly ==
    [][\A c \in Calls :
          LET ne == Len(output'[c].entities) - Len(output[c].entities)
              nr == Len(output'[c].errors) - Len(output[c].errors)
              it == dispatchLog'[c][Len(dispatchLog'[c])].item
              new == output'[c].errors[Len(output'[c].errors)]
          IN  /\ Extends(output'[c].entities, output[c].entities)
              /\ Extends(output'[c].errors, output[c].errors)
              /\ ne + nr <= 1
              /\ ne = 1 =>
                    /\ it.type = "entity" /\ isAllowed(it.entity, it.location)
                    /\ output'[c].entities[Len(output'[c].entities)].location
                          = it.location
              /\ nr = 1 =>
                    \/ /\ pc[c] = "for_depth" /\ pc'[c] = "done"
                       /\ new = RecursionLimitEntry(c)
                    \/ /\ it.type = "entity" /\ ~isAllowed(it.entity, it.location)
                       /\ new = [location |-> it.location,
                                 error |-> PolicyError(it.location, it.entity.kind)]
                    \/ /\ it.type = "error"
                       /\ new = ErrorEntry(it)]_vars

\* C20 witness: a call that returned at the bound with entities, errors of
\* ErrorResult items and the recursion-limit error in its output, after
\* dispatching a LocationResult item while the output was not empty.
C20_Witness ==
    /\ EndedAtBound("a")
    /\ Len(output["a"].entities) >= 2
    /\ Len(output["a"].errors) >= 3
    /\ \E d \in 2..Len(dispatchLog["a"]) : dispatchLog["a"][d].item.type = "location"

====
